---- MODULE Spec2Model ----
(***************************************************************************)
(* elabftw-usersync: one synchronisation run (main.start_sync) of LDAP     *)
(* groups into ElabFTW teams.                                              *)
(*                                                                         *)
(* The state is the remote ElabFTW store, the two caches the ElabFTW       *)
(* object keeps of it (all_users, user_data_list), and the position of     *)
(* the run with the locals of process_elabftw / process_removed_users.     *)
(* Every action issues at most one remote request that changes the store,  *)
(* so that the intermediate states of the run are states of the model.     *)
(***************************************************************************)
EXTENDS Integers, Sequences, FiniteSets, TLC

(***************************************************************************)
(* The universe of one run.                                                *)
(***************************************************************************)
\* uniIds (the directory's cn, ElabFTW's orgid) in the order the directory lists them
UserOrder == <<"a", "b", "c">>
UniIds == {UserOrder[i] : i \in 1..Len(UserOrder)}
\* the id the remote store gives the account of a uniId
UserIdOf(uni) == CHOOSE i \in 1..Len(UserOrder) : UserOrder[i] = uni
UserIds == 1..Len(UserOrder)
OrgIdOf(id) == UserOrder[id]
\* the teams of the remote store, by their orgid; "userarchiv" is the fallback team
FallbackTeam == "userarchiv"
RemoteTeams == {"T1", "T2", FallbackTeam}
\* the team names a whitelist may hold; "T9" is no team of the remote store
WhitelistTeams == {"T1", "T2", "T9"}
\* the most whitelist entries of a run
MaxEntries == 2
\* the most remote requests the remote store rejects in a run of SpecFaults
MaxRejects == 1
\* the longest list of uniIds given to diff_users in SpecDiff
MaxLen == 3
\* the most directory entries given to parse_users_from_ldap in SpecParse
MaxParsed == 2

\* user_id when the creation response has no Location header
NoId == 0
\* usergroup levels
Admin == 2
User == 4
None == "None"

(***************************************************************************)
(* The remote store: per account, whether it exists, its archived flag and *)
(* its membership of every team.                                           *)
(***************************************************************************)
NoMembership == [member |-> FALSE, usergroup |-> User, is_owner |-> FALSE]
PlainMember == [member |-> TRUE, usergroup |-> User, is_owner |-> FALSE]
OwnerMember == [member |-> TRUE, usergroup |-> Admin, is_owner |-> TRUE]
NoTeams == [t \in RemoteTeams |-> NoMembership]
NoAccount == [exists |-> FALSE, archived |-> FALSE, teams |-> NoTeams]

TeamsOf(rec) == {t \in RemoteTeams : rec.teams[t].member}
RemoteMembers(r, t) == {i \in UserIds : r[i].exists /\ r[i].teams[t].member}
RemoteOwners(r, t) == {i \in UserIds : r[i].exists /\ r[i].teams[t].member
                                        /\ r[i].teams[t].is_owner}

\* A request for user id i reaches an account
Reaches(r, i) == i \in UserIds /\ r[i].exists

\* POST /api/v2/users with "team": the new account is an active member of the team
RemoteCreate(r, i, t) ==
    [r EXCEPT ![i] = [exists |-> TRUE, archived |-> FALSE,
                      teams |-> [x \in RemoteTeams |->
                                   IF x = t THEN PlainMember ELSE NoMembership]]]
\* PATCH {"action": "add", "team": t}
RemoteAdd(r, i, t) ==
    IF Reaches(r, i) /\ t \in RemoteTeams /\ ~r[i].teams[t].member
    THEN [r EXCEPT ![i].teams[t] = PlainMember] ELSE r
\* PATCH {"action": "unreference", "team": t}
RemoteUnreference(r, i, t) ==
    IF Reaches(r, i) /\ t \in RemoteTeams
    THEN [r EXCEPT ![i].teams[t] = NoMembership] ELSE r
\* PATCH {"action": "archive"}: the remote store flips the flag
RemoteToggleArchived(r, i) ==
    IF Reaches(r, i) THEN [r EXCEPT ![i].archived = ~@] ELSE r
\* PATCH {"action": "patchuser2team", "target": "is_owner", "content": v}
RemotePatchOwner(r, i, t, v) ==
    IF Reaches(r, i) /\ t \in RemoteTeams /\ r[i].teams[t].member
    THEN [r EXCEPT ![i].teams[t].is_owner = v] ELSE r
\* PATCH {"action": "patchuser2team", "target": "group", "content": g}
RemotePatchGroup(r, i, t, g) ==
    IF Reaches(r, i) /\ t \in RemoteTeams /\ r[i].teams[t].member
    THEN [r EXCEPT ![i].teams[t].usergroup = g] ELSE r

(***************************************************************************)
(* State.                                                                  *)
(***************************************************************************)
VARIABLES
    remote,          \* the remote store: [UserIds -> account]
    all_users,       \* ElabFTW.all_users: the cached user summaries
    user_data_list,  \* ElabFTW.user_data_list: the cached user details
    pc,              \* where the run stands
    entries,         \* the whitelist entries taken so far, with process_elabftw's result
    dir,             \* what the directory returned for each whitelist team queried
    cur,             \* the locals of process_elabftw and process_removed_users for
                     \* the whitelist entry taken last
    team_owners,     \* ensure_single_teamowner: the owners still to be unset
    rm,              \* the running remove_user_from_team call
    to_remove,       \* remove_users_from_team: the uniIds still to be removed
    remote0,         \* the remote store as it was when the run started
    created,         \* per uniId, the accounts the remote store created in this run
    rejects,         \* the remote requests rejected so far
    maxRej,          \* the remote requests the remote store may reject in this run
    event,           \* the call that returned in the step leading to this state
    group_dicts,     \* the whitelist: the groups and their leaders, as read_whitelist
                     \* returned them
    request,         \* the remote request issued in the step leading to this state
    diff,            \* a call of helper.diff_users: its arguments and what it returned
    rerun,           \* which run of start_sync this is, and the remote store as the
                     \* run before left it
    parse            \* a call of helper.parse_users_from_ldap: its argument, the
                     \* environment and what it returned or raised

vars == <<remote, all_users, user_data_list, pc, entries, dir, cur, team_owners,
          rm, to_remove, remote0, created, rejects, maxRej, event, group_dicts,
          request, diff, rerun, parse>>

Min(S) == CHOOSE x \in S : \A y \in S : x <= y
\* the uniIds of S as the directory lists them
DirSeq(S) == SelectSeq(UserOrder, LAMBDA u : u \in S)

\* a call of set_teamowner: the answers to its two patches and what it returned
NoCall == [is_owner |-> "not issued", group |-> "not issued", returned |-> "not returned"]
Answer(ok) == IF ok THEN "accepted" ELSE "rejected"
NoCur == [team |-> None, leader |-> None, members |-> <<>>, team_leader_id |-> NoId,
          idx |-> 0, user_id |-> NoId, unarchived |-> FALSE, owners0 |-> {},
          before |-> [i \in UserIds |-> NoAccount], patch_rejected |-> FALSE,
          set_teamowner |-> NoCall, scanned |-> FALSE, owners |-> <<>>,
          team_users |-> <<>>, invoked |-> [u \in UniIds |-> 0],
          at_start |-> [i \in UserIds |-> NoAccount]]
NoRm == [user_id |-> NoId, team |-> None, single |-> FALSE, ret |-> None,
         pre |-> NoAccount]
NoEvent == [op |-> None, uni |-> None, user |-> NoId, team |-> None, pre |-> NoAccount,
            owners |-> {}, raised |-> None]
Unqueried == [queried |-> FALSE, users |-> {}]
FirstRun == [n |-> 1, first |-> [i \in UserIds |-> NoAccount]]
NoDiff == [ldap_users |-> <<>>, elabftw_users |-> <<>>, add |-> <<>>, remove |-> <<>>,
           called |-> FALSE]
NoParse == [ldap_users_obj |-> <<>>, env |-> None, users |-> <<>>, raised |-> None,
            called |-> FALSE]
NoRequest == [op |-> None, uni |-> None, user |-> NoId, team |-> None, content |-> None,
              entry |-> 0, ok |-> TRUE]
\* a request of the whitelist entry being processed, and the remote store's answer
Req(op, uni, user, team, content, ok) ==
    [op |-> op, uni |-> uni, user |-> user, team |-> team, content |-> content,
     entry |-> Len(entries), ok |-> ok]

\* if resp.status_code != 200: logger.error(...): the rejection is logged and the
\* caller goes on to what follows the request
\* a rejected request being issued again
LoggedOnly_retry(ok, next) == IF ok THEN next ELSE pc
\* a rejected request ending the run (exit(1)) instead
LoggedOnly_exit(ok, next) == IF ok THEN next ELSE "aborted"
LoggedOnly(ok, next) == next

\* the remote requests that may be rejected now
Outcomes == IF rejects < maxRej THEN {TRUE, FALSE} ELSE {TRUE}
Count(ok) == IF ok THEN rejects ELSE rejects + 1

(***************************************************************************)
(* The caches.                                                             *)
(***************************************************************************)
\* GET /api/v2/users?includeArchived=1 (get_all_users): one summary per account
SummaryOf(r, i) == [userid |-> i, orgid |-> OrgIdOf(i), archived |-> r[i].archived,
                    keys |-> {"userid", "orgid", "archived"}]
\* GET /api/v2/users/{id} (create_users_dict): one detail record per account
DetailOf(r, i) == [userid |-> i, orgid |-> OrgIdOf(i), email |-> OrgIdOf(i),
                   teams |-> r[i].teams,
                   keys |-> {"userid", "orgid", "email", "teams"}]
Existing(r) == SelectSeq([i \in UserIds |-> i], LAMBDA i : r[i].exists)
SnapshotSummaries(r) == [k \in 1..Len(Existing(r)) |-> SummaryOf(r, Existing(r)[k])]
SnapshotDetails(r) == [k \in 1..Len(Existing(r)) |-> DetailOf(r, Existing(r)[k])]

\* the records create_user appends: the summary has no "archived" key, the detail
\* has no "orgid" key and an empty team list
CreatedSummary(id, uni) == [userid |-> id, orgid |-> uni, archived |-> FALSE,
                            keys |-> {"userid", "orgid"}]
CreatedDetail(id, uni) == [userid |-> id, orgid |-> None, email |-> uni,
                           teams |-> NoTeams,
                           keys |-> {"userid", "email", "teams"}]

\* get_user_id: the first summary whose orgid is uni
Matches(uni) == {k \in 1..Len(all_users) : all_users[k].orgid = uni}
Found(uni) == Matches(uni) # {}
Summary(uni) == all_users[Min(Matches(uni))]

\* next(user for user in user_data_list if user["userid"] == id)
DetailMatches(id) == {k \in 1..Len(user_data_list) : user_data_list[k].userid = id}
HasDetail(id) == DetailMatches(id) # {}
Detail(id) == user_data_list[Min(DetailMatches(id))]

\* get_teams_for_user: the teams of the cached detail record
get_teams_for_user(id) == TeamsOf(Detail(id))

\* get_users_for_team asking the remote store for the members of the team
get_users_for_team_remote(t) ==
    LET members == SelectSeq([i \in UserIds |-> i],
                             LAMBDA i : i \in RemoteMembers(remote, t))
    IN  [k \in 1..Len(members) |->
            [user_mail |-> OrgIdOf(members[k]), user_id |-> members[k],
             orgid |-> OrgIdOf(members[k])]]
\* get_users_for_team: one record for every cached detail record that lists the
\* team, in cache order
RECURSIVE UsersInTeam(_, _, _)
UsersInTeam(t, k, users_in_team) ==
    IF k > Len(user_data_list) THEN users_in_team
    ELSE LET user == user_data_list[k] IN
         IF t \in RemoteTeams /\ user.teams[t].member
         THEN UsersInTeam(t, k + 1,
                          Append(users_in_team,
                                 [user_mail |-> user.email, user_id |-> user.userid,
                                  orgid |-> user.orgid]))
         ELSE UsersInTeam(t, k + 1, users_in_team)
get_users_for_team(t) == UsersInTeam(t, 1, <<>>)

\* get_team_id returning an id for a name no team of the remote store has
get_team_id_any(name) == name
\* get_team_id: the id of the team with that orgid, None when there is none
get_team_id(name) == IF name \in RemoteTeams THEN name ELSE None

(***************************************************************************)
(* The remote stores a run may start from.                                 *)
(***************************************************************************)
\* the whitelists read_whitelist may return: one row per group, with its leader
Group(name, leader) == [groupname |-> name, leader |-> leader]
Groups == {Group(t, l) : t \in WhitelistTeams, l \in UniIds}
Whitelists == UNION {[1..n -> Groups] : n \in 0..MaxEntries}

Account(arch, ts) == [exists |-> TRUE, archived |-> arch, teams |-> ts]
Profiles == <<
    NoAccount,
    Account(FALSE, [NoTeams EXCEPT !["T1"] = PlainMember]),
    Account(FALSE, [NoTeams EXCEPT !["T1"] = OwnerMember]),
    Account(FALSE, [NoTeams EXCEPT !["T1"] = PlainMember, !["T2"] = PlainMember]),
    Account(TRUE, [NoTeams EXCEPT ![FallbackTeam] = PlainMember]),
    Account(TRUE, [NoTeams EXCEPT !["T1"] = PlainMember]) >>

InitWith(budgets) ==
    /\ \E p \in [UserIds -> 1..Len(Profiles)] :
          /\ \A i, j \in UserIds : i <= j => p[i] <= p[j]
          /\ remote = [i \in UserIds |-> Profiles[p[i]]]
    /\ remote0 = remote
    /\ all_users = <<>>
    /\ user_data_list = <<>>
    /\ pc = "connect"
    /\ entries = <<>>
    /\ dir = [t \in WhitelistTeams |-> Unqueried]
    /\ cur = NoCur
    /\ team_owners = <<>>
    /\ rm = NoRm
    /\ to_remove = <<>>
    /\ created = [u \in UniIds |-> 0]
    /\ rejects = 0
    /\ maxRej \in budgets
    /\ event = NoEvent
    /\ group_dicts \in Whitelists
    /\ request = NoRequest
    /\ diff = NoDiff
    /\ rerun = FirstRun
    /\ parse = NoParse

Init == InitWith({0})

(***************************************************************************)
(* main.start_sync                                                         *)
(***************************************************************************)
\* what GET /api/v2/info may meet: status 200, a refused connection, another status
ConnectionAnswers == IF rejects < maxRej THEN {"200", "refused", "503"} ELSE {"200"}
\* check_connection returning True whatever the answer
check_connection_any(answer) == "True"
\* check_connection: True on status 200, UserSyncException otherwise
check_connection(answer) == IF answer = "200" THEN "True" ELSE "UserSyncException"

\* check_connection, then get_all_users and create_users_dict
Connect ==
    /\ pc = "connect"
    /\ \E answer \in ConnectionAnswers :
          LET ok == answer = "200" IN
          /\ rejects' = Count(ok)
          /\ request' = Req("check_connection", None, NoId, None, answer, ok)
          /\ IF check_connection(answer) = "True"
             THEN /\ all_users' = SnapshotSummaries(remote)
                  /\ user_data_list' = SnapshotDetails(remote)
                  /\ pc' = "whitelist"
                  /\ event' = [NoEvent EXCEPT !.op = "check_connection"]
             ELSE /\ UNCHANGED <<all_users, user_data_list>>
                  /\ pc' = "aborted"
                  /\ event' = [NoEvent EXCEPT !.op = "UserSyncException"]
    /\ UNCHANGED <<remote, entries, dir, cur, team_owners, rm, to_remove, remote0,
                   created, maxRej, group_dicts, diff, rerun, parse>>

\* parse_leader_mail_from_ldap returning a mail for a leader the group lacks
parse_leader_mail_any(users, leader_acc) == leader_acc
\* parse_leader_mail_from_ldap: the mail of the leader account, None when the
\* directory group does not hold it (a user's mail is modelled by the uniId)
parse_leader_mail_from_ldap(users, leader_acc) ==
    IF leader_acc \in users THEN leader_acc ELSE None

\* what the directory may hold for the group of a team when it is first queried:
\* any group that holds the leader account, or the group of all others; the group
\* of the team the remote store does not have holds everybody
Directories(team, leader) ==
    IF get_team_id(team) = None THEN {UniIds}
    ELSE {users \in SUBSET UniIds : leader \in users} \cup {UniIds \ {leader}}

\* the leader left in parsed_ldap_users
WithoutLeader_keep(parsed_ldap_users, leader_mail) == parsed_ldap_users
\* [user for user in parsed_ldap_users if user["email"] != leader_mail]
WithoutLeader(parsed_ldap_users, leader_mail) ==
    SelectSeq(parsed_ldap_users, LAMBDA user : user # leader_mail)

\* a loop that leaves out a row
NextGroup_skip(taken) == Len(taken) + 2
\* for group in group_dicts: the row the loop takes after those taken so far
NextGroup(taken) == Len(taken) + 1

\* process_removed_users run whatever process_elabftw returned
AfterProcessElabftw_always(result) == "removed"
\* if process_elabftw(...): process_removed_users(...), else the next row
AfterProcessElabftw(result) == IF result = "True" THEN "removed" ELSE "whitelist"

\* One iteration of the whitelist loop up to the first remote request:
\* process_ldap, then process_elabftw's checks
StartEntry ==
    /\ pc = "whitelist"
    /\ NextGroup(entries) <= Len(group_dicts)
    /\ \E users \in SUBSET UniIds :
          LET group == group_dicts[NextGroup(entries)]
              team == group.groupname
              leader == group.leader
          IN
          /\ dir[team].queried => users = dir[team].users
          /\ ~dir[team].queried => users \in Directories(team, leader)
          /\ dir' = [dir EXCEPT ![team] = [queried |-> TRUE, users |-> users]]
          /\ LET leader_mail == parse_leader_mail_from_ldap(users, leader)
                 skip == leader_mail = None \/ get_team_id(team) = None
             IN  IF skip
                 THEN /\ entries' = Append(entries, [team |-> team, leader |-> leader,
                                                     result |-> "False"])
                      /\ cur' = NoCur
                      /\ pc' = AfterProcessElabftw("False")
                      /\ event' = [NoEvent EXCEPT !.op = "process_elabftw_false",
                                                  !.team = team]
                 ELSE /\ entries' = Append(entries, [team |-> team, leader |-> leader,
                                                     result |-> "running"])
                      /\ cur' = [NoCur EXCEPT !.team = team, !.leader = leader,
                                   !.at_start = remote,
                                   !.members = WithoutLeader(DirSeq(users), leader_mail)]
                      /\ pc' = "leader"
                      /\ event' = [NoEvent EXCEPT !.op = "process_ldap", !.team = team]
    /\ request' = NoRequest
    /\ UNCHANGED <<remote, all_users, user_data_list, team_owners, rm, to_remove,
                   remote0, created, rejects, maxRej, group_dicts, diff, rerun, parse>>

\* the whitelist has no further entry
Finish ==
    /\ pc = "whitelist"
    /\ NextGroup(entries) > Len(group_dicts)
    /\ pc' = "done"
    /\ event' = [NoEvent EXCEPT !.op = "start_sync"]
    /\ request' = NoRequest
    /\ UNCHANGED <<remote, all_users, user_data_list, entries, dir, cur, team_owners,
                   rm, to_remove, remote0, created, rejects, maxRej, group_dicts, diff,
                   rerun, parse>>

(***************************************************************************)
(* ElabFTW.get_user_id_or_create                                           *)
(***************************************************************************)
\* whether get_user_id_or_create(uni) issues a remote request: the archive toggle
\* of an account found archived, or the creation of an account not found
Requests(uni) ==
    IF Found(uni)
    THEN "archived" \in Summary(uni).keys /\ Summary(uni).archived
    ELSE TRUE

\* get_user_id_or_create(uni, .., team_id), the remote store answering ok: what it
\* returns (uid, unarchived) or raises, and the remote store afterwards
get_user_id_or_create(uni, t, ok) ==
    IF Found(uni)
    THEN LET s == Summary(uni) IN
         IF "archived" \notin s.keys
         THEN \* get_user_id: user["archived"] of a record create_user appended
              [op |-> "get_user_id", raised |-> "KeyError", uid |-> s.userid,
               unarchived |-> FALSE, remote |-> remote, create |-> FALSE]
         ELSE IF s.archived
         THEN IF ok /\ Reaches(remote, s.userid)
              THEN [op |-> "toggle_user_archived", raised |-> None, uid |-> s.userid,
                    unarchived |-> TRUE,
                    remote |-> RemoteToggleArchived(remote, s.userid), create |-> FALSE]
              ELSE \* toggle_user_archived returned None: unarchived is never bound
                   [op |-> "toggle_user_archived", raised |-> "UnboundLocalError",
                    uid |-> s.userid, unarchived |-> FALSE, remote |-> remote,
                    create |-> FALSE]
         ELSE [op |-> "get_user_id", raised |-> None, uid |-> s.userid,
               unarchived |-> FALSE, remote |-> remote, create |-> FALSE]
    ELSE \* create_user: the id comes from the Location header of an accepted POST
         [op |-> "create_user", raised |-> None,
          uid |-> IF ok THEN UserIdOf(uni) ELSE NoId, unarchived |-> FALSE,
          remote |-> IF ok THEN RemoteCreate(remote, UserIdOf(uni), t) ELSE remote,
          create |-> TRUE]

\* the effect of get_user_id_or_create on the store, the caches and the counters
Resolve(uni, res, ok) ==
    /\ remote' = res.remote
    /\ rejects' = Count(ok)
    /\ all_users' = IF res.create
                    THEN Append(all_users, CreatedSummary(res.uid, uni)) ELSE all_users
    /\ user_data_list' = IF res.create
                         THEN Append(user_data_list, CreatedDetail(res.uid, uni))
                         ELSE user_data_list
    /\ created' = IF res.create /\ ok
                  THEN [created EXCEPT ![uni] = @ + 1] ELSE created
    /\ event' = [NoEvent EXCEPT !.op = res.op, !.uni = uni, !.user = res.uid,
                                !.team = cur.team, !.raised = res.raised]
    /\ request' = IF ~Requests(uni) THEN NoRequest
                  ELSE IF res.create
                  THEN Req("create_user", uni, NoId, get_team_id(cur.team), None, ok)
                  ELSE Req("archive", uni, res.uid, None, None, ok)

RequestOutcomes(uni) == IF Requests(uni) THEN Outcomes ELSE {TRUE}

(***************************************************************************)
(* ElabFTW.remove_user_from_team                                           *)
(***************************************************************************)
\* the locals after one more call of get_user_id_or_create for the directory user
Invoked(c, uni) == [c EXCEPT !.invoked[uni] = @ + 1]

\* a member loop that passes over a directory user
Advance_skip(c) == [c EXCEPT !.idx = @ + 2, !.user_id = NoId, !.unarchived = FALSE]
\* the member loop of process_elabftw moves on to the next directory user
Advance(c) == [c EXCEPT !.idx = @ + 1, !.user_id = NoId, !.unarchived = FALSE]
\* the removals following the member loop at once
AfterMember_removals(c) == IF c.idx <= Len(c.members) THEN "member" ELSE "removed"
\* after the last directory user comes ensure_single_teamowner
AfterMember(c) == IF c.idx <= Len(c.members) THEN "member" ELSE "owner"

\* remove_user_from_team(user_id, team_name) up to its first remote request:
\* get_team_id and get_teams_for_user, which reads the cached detail record
BeginRemove(id, team_name, ret) ==
    [user_id |-> id, team |-> get_team_id(team_name),
     single |-> Cardinality(get_teams_for_user(id)) = 1, ret |-> ret,
     pre |-> IF Reaches(remote, id) THEN remote[id] ELSE NoAccount]
FirstRemoveStep(r) == IF r.single THEN "rm_add" ELSE "rm_unref"

\* remove_user_from_team returns to its caller
ReturnFromRemove(ok) ==
    /\ rm' = NoRm
    /\ event' = [NoEvent EXCEPT !.op = "remove_user_from_team", !.user = rm.user_id,
                                !.team = rm.team, !.pre = rm.pre]
    /\ IF rm.ret = "member"
       THEN /\ cur' = Advance(cur)
            /\ pc' = LoggedOnly(ok, AfterMember(Advance(cur)))
       ELSE /\ cur' = cur
            /\ pc' = LoggedOnly(ok, "remove_next")

\* the user's only cached team: add_user_to_team(user_id, userarchive_id)
RemoveAddFallback ==
    /\ pc = "rm_add"
    /\ \E ok \in Outcomes :
          /\ rejects' = Count(ok)
          /\ remote' = IF ok THEN RemoteAdd(remote, rm.user_id, FallbackTeam) ELSE remote
          /\ request' = Req("add", None, rm.user_id, FallbackTeam, None, ok)
          /\ pc' = LoggedOnly(ok, "rm_unref")
    /\ event' = [NoEvent EXCEPT !.op = "add_user_to_team", !.user = rm.user_id,
                                !.team = FallbackTeam]
    /\ UNCHANGED <<all_users, user_data_list, entries, dir, cur, team_owners, rm,
                   to_remove, remote0, created, maxRej, group_dicts, diff, rerun, parse>>

\* PATCH unreference of the team, in both branches
RemoveUnreference ==
    /\ pc = "rm_unref"
    /\ \E ok \in Outcomes :
          /\ rejects' = Count(ok)
          /\ remote' = IF ok THEN RemoteUnreference(remote, rm.user_id, rm.team)
                       ELSE remote
          /\ request' = Req("unreference", None, rm.user_id, rm.team, None, ok)
          /\ IF rm.single
             THEN /\ pc' = LoggedOnly(ok, "rm_toggle")
                  /\ event' = [NoEvent EXCEPT !.op = "unreference", !.user = rm.user_id,
                                              !.team = rm.team]
                  /\ UNCHANGED <<rm, cur>>
             ELSE ReturnFromRemove(ok)
    /\ UNCHANGED <<all_users, user_data_list, entries, dir, team_owners, to_remove,
                   remote0, created, maxRej, group_dicts, diff, rerun, parse>>

\* the user's only cached team: toggle_user_archived(user_id)
RemoveArchive ==
    /\ pc = "rm_toggle"
    /\ \E ok \in Outcomes :
          /\ rejects' = Count(ok)
          /\ remote' = IF ok THEN RemoteToggleArchived(remote, rm.user_id) ELSE remote
          /\ request' = Req("archive", None, rm.user_id, None, None, ok)
          /\ ReturnFromRemove(ok)
    /\ UNCHANGED <<all_users, user_data_list, entries, dir, team_owners, to_remove,
                   remote0, created, maxRej, group_dicts, diff, rerun, parse>>

(***************************************************************************)
(* processing.process_elabftw                                              *)
(***************************************************************************)
\* team_leader_id = get_user_id_or_create(leader ...)[0]
LeaderResolve ==
    /\ pc = "leader"
    /\ \E ok \in RequestOutcomes(cur.leader) :
          LET res == get_user_id_or_create(cur.leader, get_team_id(cur.team), ok) IN
          /\ Resolve(cur.leader, res, ok)
          /\ IF res.raised # None
             THEN pc' = "crashed" /\ cur' = Invoked(cur, cur.leader)
             ELSE /\ pc' = LoggedOnly(ok, "leader_add")
                  /\ cur' = [Invoked(cur, cur.leader) EXCEPT !.team_leader_id = res.uid]
    /\ UNCHANGED <<entries, dir, team_owners, rm, to_remove, remote0, maxRej,
                   group_dicts, diff, rerun, parse>>

\* add_user_to_team(team_leader_id, team_id); the leader is then dropped from
\* parsed_ldap_users and the member loop starts
LeaderAdd ==
    /\ pc = "leader_add"
    /\ \E ok \in Outcomes :
          /\ rejects' = Count(ok)
          /\ remote' = IF ok THEN RemoteAdd(remote, cur.team_leader_id, get_team_id(cur.team))
                       ELSE remote
          /\ request' = Req("add", cur.leader, cur.team_leader_id, get_team_id(cur.team),
                            None, ok)
          /\ cur' = [cur EXCEPT !.idx = 1]
          /\ pc' = LoggedOnly(ok, AfterMember(cur'))
    /\ event' = [NoEvent EXCEPT !.op = "add_user_to_team", !.uni = cur.leader,
                                !.user = cur.team_leader_id, !.team = cur.team]
    /\ UNCHANGED <<all_users, user_data_list, entries, dir, team_owners, rm, to_remove,
                   remote0, created, maxRej, group_dicts, diff, rerun, parse>>

\* user_id, unarchived = get_user_id_or_create(user ...) for the next directory user
MemberResolve ==
    /\ pc = "member"
    /\ LET uni == cur.members[cur.idx] IN
       \E ok \in RequestOutcomes(uni) :
          LET res == get_user_id_or_create(uni, get_team_id(cur.team), ok) IN
          /\ Resolve(uni, res, ok)
          /\ IF res.raised # None
             THEN pc' = "crashed" /\ cur' = Invoked(cur, uni)
             ELSE /\ pc' = LoggedOnly(ok, "member_add")
                  /\ cur' = [Invoked(cur, uni) EXCEPT !.user_id = res.uid,
                                                      !.unarchived = res.unarchived]
    /\ UNCHANGED <<entries, dir, team_owners, rm, to_remove, remote0, maxRej,
                   group_dicts, diff, rerun, parse>>

\* add_user_to_team(user_id, team_id), and, if the user was unarchived, the start
\* of remove_user_from_team(user_id, "userarchiv")
MemberAdd ==
    /\ pc = "member_add"
    /\ \E ok \in Outcomes :
          /\ rejects' = Count(ok)
          /\ remote' = IF ok THEN RemoteAdd(remote, cur.user_id, get_team_id(cur.team))
                       ELSE remote
          /\ request' = Req("add", cur.members[cur.idx], cur.user_id,
                            get_team_id(cur.team), None, ok)
          /\ IF cur.unarchived = TRUE
             THEN /\ rm' = [BeginRemove(cur.user_id, FallbackTeam, "member")
                              EXCEPT !.pre = IF Reaches(remote', cur.user_id)
                                             THEN remote'[cur.user_id] ELSE NoAccount]
                  /\ pc' = LoggedOnly(ok, FirstRemoveStep(rm'))
                  /\ cur' = cur
             ELSE /\ rm' = rm
                  /\ cur' = Advance(cur)
                  /\ pc' = LoggedOnly(ok, AfterMember(cur'))
    /\ event' = [NoEvent EXCEPT !.op = "add_user_to_team",
                                !.uni = cur.members[cur.idx],
                                !.user = cur.user_id, !.team = cur.team]
    /\ UNCHANGED <<all_users, user_data_list, entries, dir, team_owners, to_remove,
                   remote0, created, maxRej, group_dicts, diff, rerun, parse>>

(***************************************************************************)
(* ElabFTW.ensure_single_teamowner                                         *)
(***************************************************************************)
\* get_team_owners: of the cached members of the team, those whose record fetched
\* from the remote store marks them owner of the team, in cache order
OwnerIn(r, id, t) == Reaches(r, id) /\ r[id].teams[t].member /\ r[id].teams[t].is_owner
IsRemoteOwner(id, t) == OwnerIn(remote, id, t)
get_team_owners(t) ==
    LET owning == SelectSeq(get_users_for_team(t),
                            LAMBDA user : IsRemoteOwner(user.user_id, t))
    IN  [k \in 1..Len(owning) |-> owning[k].user_id]

\* team["is_owner"] == 1 in the cached detail record of the user
CachedOwner(id, t) == Detail(id).teams[t].member /\ Detail(id).teams[t].is_owner

\* the locals after a patch of the ownership step that the remote store answered ok
Patched(c, ok) == [c EXCEPT !.patch_rejected = @ \/ ~ok]

\* ensure_single_teamowner has returned and process_elabftw returns True
ReturnTrue(ok) ==
    /\ pc' = LoggedOnly(ok, AfterProcessElabftw("True"))
    /\ team_owners' = <<>>
    /\ entries' = [entries EXCEPT ![Len(entries)].result = "True"]
    /\ event' = [NoEvent EXCEPT !.op = "ensure_single_teamowner",
                                !.uni = cur.leader, !.user = cur.team_leader_id,
                                !.team = cur.team, !.owners = cur.owners0]

\* team_owners = get_team_owners(team_id) and the choice of the branch
EnsureScan ==
    /\ pc = "owner"
    /\ LET t == get_team_id(cur.team)
           owners == get_team_owners(t)
       IN  /\ cur' = [cur EXCEPT !.owners0 = RemoteOwners(remote, t),
                                  !.scanned = TRUE, !.owners = owners,
                                  !.team_users = get_users_for_team(t)]
           /\ IF Len(owners) = 0
              THEN /\ pc' = "promote"
                   /\ team_owners' = <<>>
                   /\ event' = [NoEvent EXCEPT !.op = "get_team_owners", !.team = t]
                   /\ UNCHANGED entries
              ELSE IF Len(owners) > 1 \/ owners[1] # cur.team_leader_id
              THEN /\ pc' = "demote"
                   /\ team_owners' = owners
                   /\ event' = [NoEvent EXCEPT !.op = "get_team_owners", !.team = t]
                   /\ UNCHANGED entries
              ELSE \* the new owner is the same as the current owner: nothing to do
                   /\ pc' = AfterProcessElabftw("True")
                   /\ team_owners' = <<>>
                   /\ entries' = [entries EXCEPT ![Len(entries)].result = "True"]
                   /\ event' = [NoEvent EXCEPT !.op = "ensure_single_teamowner",
                                   !.uni = cur.leader, !.user = cur.team_leader_id,
                                   !.team = t, !.owners = RemoteOwners(remote, t)]
    /\ request' = NoRequest
    /\ UNCHANGED <<remote, all_users, user_data_list, dir, rm, to_remove, remote0,
                   created, rejects, maxRej, group_dicts, diff, rerun, parse>>

\* the "content" of the group patches of remove_user_as_teamowner and set_teamowner
DemotedGroup == User
\* set_teamowner patching the new owner's group to 4 instead of 2
PromotedGroup_User == User
PromotedGroup == Admin

AfterDemote(rest) == IF rest = <<>> THEN "promote" ELSE "demote"

\* remove_user_as_teamowner(user, team_id), first patch: is_owner := False, issued
\* only when the cached detail record marks the user owner of the team
DemoteOwner ==
    /\ pc = "demote"
    /\ LET id == Head(team_owners)
           t == get_team_id(cur.team)
       IN  IF CachedOwner(id, t)
           THEN /\ \E ok \in Outcomes :
                      /\ rejects' = Count(ok)
                      /\ remote' = IF ok THEN RemotePatchOwner(remote, id, t, FALSE)
                                   ELSE remote
                      /\ request' = Req("is_owner", None, id, t, "False", ok)
                      /\ pc' = LoggedOnly(ok, "demote_group")
                      /\ cur' = Patched(cur, ok)
                /\ team_owners' = team_owners
                /\ event' = [NoEvent EXCEPT !.op = "patch_is_owner", !.user = id,
                                            !.team = t]
           ELSE /\ UNCHANGED <<remote, rejects>>
                /\ request' = NoRequest
                /\ cur' = cur
                /\ team_owners' = Tail(team_owners)
                /\ pc' = AfterDemote(team_owners')
                /\ event' = [NoEvent EXCEPT !.op = "remove_user_as_teamowner",
                                            !.user = id, !.team = t]
    /\ UNCHANGED <<all_users, user_data_list, entries, dir, rm, to_remove,
                   remote0, created, maxRej, group_dicts, diff, rerun, parse>>

\* remove_user_as_teamowner, second patch: group := 4
DemoteGroup ==
    /\ pc = "demote_group"
    /\ LET id == Head(team_owners)
           t == get_team_id(cur.team)
       IN  /\ \E ok \in Outcomes :
                 /\ rejects' = Count(ok)
                 /\ remote' = IF ok THEN RemotePatchGroup(remote, id, t, DemotedGroup)
                              ELSE remote
                 /\ request' = Req("group", None, id, t, "4", ok)
                 /\ team_owners' = Tail(team_owners)
                 /\ pc' = LoggedOnly(ok, AfterDemote(team_owners'))
                 /\ cur' = Patched(cur, ok)
           /\ event' = [NoEvent EXCEPT !.op = "remove_user_as_teamowner",
                                       !.user = id, !.team = t]
    /\ UNCHANGED <<all_users, user_data_list, entries, dir, rm, to_remove,
                   remote0, created, maxRej, group_dicts, diff, rerun, parse>>

\* the group patch following the is_owner patch whatever the answer
GroupPatchFollows_always(ok, listed) == TRUE
\* whether set_teamowner goes on to the group patch: the is_owner patch was
\* answered with status 200 and the response lists the team with is_owner == 1
GroupPatchFollows(ok, listed) == ok /\ listed

\* set_teamowner(new_owner_id, team_id), first patch: is_owner := True, skipped when
\* the cached detail record already marks the user owner of the team
PromoteOwner ==
    /\ pc = "promote"
    /\ LET id == cur.team_leader_id
           t == get_team_id(cur.team)
       IN  IF CachedOwner(id, t)
           THEN \* already_owner is True: return False
                /\ UNCHANGED <<remote, rejects>>
                /\ request' = NoRequest
                /\ cur' = [cur EXCEPT !.set_teamowner.returned = "False"]
                /\ ReturnTrue(TRUE)
           ELSE \E ok \in Outcomes :
                   /\ rejects' = Count(ok)
                   /\ remote' = IF ok THEN RemotePatchOwner(remote, id, t, TRUE)
                                ELSE remote
                   /\ request' = Req("is_owner", None, id, t, "True", ok)
                   /\ IF GroupPatchFollows(ok, OwnerIn(remote', id, t))
                      THEN /\ cur' = [Patched(cur, ok) EXCEPT
                                        !.set_teamowner.is_owner = Answer(ok)]
                           /\ pc' = "promote_group"
                           /\ event' = [NoEvent EXCEPT !.op = "patch_is_owner",
                                                       !.user = id, !.team = t]
                           /\ UNCHANGED <<team_owners, entries>>
                      ELSE \* the function ends without a return statement
                           /\ cur' = [Patched(cur, ok) EXCEPT
                                        !.set_teamowner.is_owner = Answer(ok),
                                        !.set_teamowner.returned = "None"]
                           /\ ReturnTrue(ok)
    /\ UNCHANGED <<all_users, user_data_list, dir, rm, to_remove, remote0,
                   created, maxRej, group_dicts, diff, rerun, parse>>

\* set_teamowner, second patch: group := 2; return True when it is accepted
PromoteGroup ==
    /\ pc = "promote_group"
    /\ \E ok \in Outcomes :
          /\ rejects' = Count(ok)
          /\ remote' = IF ok THEN RemotePatchGroup(remote, cur.team_leader_id,
                                                   get_team_id(cur.team), PromotedGroup)
                       ELSE remote
          /\ request' = Req("group", None, cur.team_leader_id, get_team_id(cur.team),
                            "2", ok)
          /\ cur' = [Patched(cur, ok) EXCEPT
                       !.set_teamowner.group = Answer(ok),
                       !.set_teamowner.returned = IF ok THEN "True" ELSE "None"]
          /\ ReturnTrue(ok)
    /\ UNCHANGED <<all_users, user_data_list, dir, rm, to_remove, remote0,
                   created, maxRej, group_dicts, diff, rerun, parse>>

(***************************************************************************)
(* processing.process_removed_users                                        *)
(***************************************************************************)
\* set(l): the elements of a list
set(l) == {l[k] : k \in 1..Len(l)}
\* list(S): a list that holds every element of the set once, in the order the
\* iteration of the set gives, which is any order
list(S) == {l \in [1..Cardinality(S) -> S] : set(l) = S}

\* diff_users that leaves the accounts ElabFTW already has among those to add
diff_users_keep(ldap_users, elabftw_users) ==
    {<<add, remove>> : add \in list(set(ldap_users)),
                       remove \in list(set(elabftw_users) \ set(ldap_users))}
\* diff_users that returns the two lists in the other order
diff_users_swapped(ldap_users, elabftw_users) ==
    {<<add, remove>> : add \in list(set(elabftw_users) \ set(ldap_users)),
                       remove \in list(set(ldap_users) \ set(elabftw_users))}
\* diff_users(ldap_users, elabftw_users): the pairs (add, remove) it may return
diff_users(ldap_users, elabftw_users) ==
    {<<add, remove>> : add \in list(set(ldap_users) \ set(elabftw_users)),
                       remove \in list(set(elabftw_users) \ set(ldap_users))}

\* team_users_orgids: the orgids of the cached members of the team
TeamOrgIds(t) ==
    [k \in 1..Len(get_users_for_team(t)) |-> get_users_for_team(t)[k].orgid]

\* process_removed_users up to the loop of remove_users_from_team
ProcessRemovedUsers ==
    /\ pc = "removed"
    /\ \E res \in diff_users(DirSeq(dir[cur.team].users),
                              TeamOrgIds(get_team_id(cur.team))) :
          to_remove' = res[2]
    /\ pc' = "remove_next"
    /\ cur' = [cur EXCEPT !.before = remote,
                           !.team_users = get_users_for_team(get_team_id(cur.team))]
    /\ event' = [NoEvent EXCEPT !.op = "diff_users", !.team = cur.team]
    /\ request' = NoRequest
    /\ UNCHANGED <<remote, all_users, user_data_list, entries, dir, team_owners,
                   rm, remote0, created, rejects, maxRej, group_dicts, diff, rerun, parse>>

\* remove_users_from_team: user_id = get_user_id(uni_id)[0] and the start of
\* remove_user_from_team for the next uniId, or the end of the whitelist entry
RemoveNext ==
    /\ pc = "remove_next"
    /\ IF to_remove = <<>>
       THEN /\ pc' = "whitelist"
            /\ cur' = cur
            /\ event' = [NoEvent EXCEPT !.op = "process_removed_users",
                                        !.team = cur.team]
            /\ UNCHANGED <<rm, to_remove>>
       ELSE LET uni == Head(to_remove) IN
            /\ to_remove' = Tail(to_remove)
            /\ cur' = cur
            /\ IF "archived" \notin Summary(uni).keys
               THEN /\ pc' = "crashed"
                    /\ rm' = rm
                    /\ event' = [NoEvent EXCEPT !.op = "get_user_id", !.uni = uni,
                                                !.raised = "KeyError"]
               ELSE /\ rm' = BeginRemove(Summary(uni).userid, cur.team, "removals")
                    /\ pc' = FirstRemoveStep(rm')
                    /\ event' = [NoEvent EXCEPT !.op = "get_user_id", !.uni = uni,
                                                !.user = Summary(uni).userid]
    /\ request' = NoRequest
    /\ UNCHANGED <<remote, all_users, user_data_list, entries, dir, team_owners,
                   remote0, created, rejects, maxRej, group_dicts, diff, rerun, parse>>

(***************************************************************************)
(* The run.                                                                *)
(***************************************************************************)
Next ==
    \/ Connect
    \/ StartEntry
    \/ Finish
    \/ LeaderResolve
    \/ LeaderAdd
    \/ MemberResolve
    \/ MemberAdd
    \/ RemoveAddFallback
    \/ RemoveUnreference
    \/ RemoveArchive
    \/ EnsureScan
    \/ DemoteOwner
    \/ DemoteGroup
    \/ PromoteOwner
    \/ PromoteGroup
    \/ ProcessRemovedUsers
    \/ RemoveNext

\* a run in which the remote store accepts every request
Spec == Init /\ [][Next]_vars

\* a run in which the remote store may reject up to MaxRejects requests
InitFaults == InitWith(0..MaxRejects)
SpecFaults == InitFaults /\ [][Next]_vars

(***************************************************************************)
(* start_sync run a second time: the same whitelist and directory, the     *)
(* remote store as the first run left it, a new ElabFTW object.            *)
(***************************************************************************)
Rerun ==
    /\ pc = "done"
    /\ rerun.n = 1
    /\ rerun' = [n |-> 2, first |-> remote]
    /\ pc' = "connect"
    /\ all_users' = <<>>
    /\ user_data_list' = <<>>
    /\ entries' = <<>>
    /\ cur' = NoCur
    /\ created' = [u \in UniIds |-> 0]
    /\ event' = NoEvent
    /\ request' = NoRequest
    /\ UNCHANGED <<remote, dir, team_owners, rm, to_remove, remote0, rejects, maxRej,
                   group_dicts, diff, parse>>

NextTwice == Next \/ Rerun

SpecTwice == Init /\ [][NextTwice]_vars

(***************************************************************************)
(* helper.diff_users on its own: called once on any two lists of uniIds.   *)
(***************************************************************************)
UniIdLists == UNION {[1..n -> UniIds] : n \in 0..MaxLen}

InitDiff ==
    /\ \E l \in UniIdLists, e \in UniIdLists :
          diff = [NoDiff EXCEPT !.ldap_users = l, !.elabftw_users = e]
    /\ remote = [i \in UserIds |-> NoAccount]
    /\ remote0 = remote
    /\ all_users = <<>>
    /\ user_data_list = <<>>
    /\ pc = "diff_users"
    /\ entries = <<>>
    /\ dir = [t \in WhitelistTeams |-> Unqueried]
    /\ cur = NoCur
    /\ team_owners = <<>>
    /\ rm = NoRm
    /\ to_remove = <<>>
    /\ created = [u \in UniIds |-> 0]
    /\ rejects = 0
    /\ maxRej = 0
    /\ event = NoEvent
    /\ group_dicts = <<>>
    /\ request = NoRequest
    /\ rerun = FirstRun
    /\ parse = NoParse

\* add, remove = diff_users(ldap_users, elabftw_users)
CallDiff ==
    /\ pc = "diff_users"
    /\ \E res \in diff_users(diff.ldap_users, diff.elabftw_users) :
          diff' = [diff EXCEPT !.add = res[1], !.remove = res[2], !.called = TRUE]
    /\ pc' = "returned"
    /\ UNCHANGED <<remote, all_users, user_data_list, entries, dir, cur, team_owners,
                   rm, to_remove, remote0, created, rejects, maxRej, event,
                   group_dicts, request, rerun, parse>>

NextDiff == CallDiff

SpecDiff == InitDiff /\ [][NextDiff]_vars

(***************************************************************************)
(* helper.parse_users_from_ldap on its own: called once on any directory   *)
(* search result, under any value of the environment variable              *)
(* LDAP_PSEUDO_MAIL.                                                       *)
(***************************************************************************)
\* a mail address
Mail(local, domain) == [local |-> local, domain |-> domain]
\* f"{uni_id}@pseudomail.uni-muenster.de"
PseudoMail(uni_id) == Mail(uni_id, "pseudomail.uni-muenster.de")
\* the attributes of a directory entry: it has a cn, and a mail or none
LdapEntry(cn, keys, mail) == [cn |-> cn, keys |-> keys, mail |-> mail]
LdapEntries ==
    {LdapEntry(u, {"cn"}, Mail(None, None)) : u \in UniIds}
        \cup {LdapEntry(u, {"cn", "mail"}, Mail(l, "uni-muenster.de")) :
                 u \in UniIds, l \in {"a", "x"}}
LdapResults == UNION {[1..n -> LdapEntries] : n \in 0..MaxParsed}
\* the values of LDAP_PSEUDO_MAIL in the environment (None: unset)
EnvValues == {None, "", "TRUE", "FALSE", "true", "1"}

\* a flag read without regard to case
get_ldap_pseudo_mail_upper(env) ==
    IF env \in {None, ""} THEN "FALSE" ELSE IF env = "true" THEN "TRUE" ELSE env
\* get_ldap_pseudo_mail: os.getenv("LDAP_PSEUDO_MAIL") or "FALSE"
get_ldap_pseudo_mail(env) == IF env \in {None, ""} THEN "FALSE" ELSE env

\* the user record parse_users_from_ldap appends for an entry (the names are left out)
ParsedUser(user_mail, uni_id) == [email |-> user_mail, uni_id |-> uni_id]

\* parse_users_from_ldap(ldap_users_obj): the loop from entry k on, users being the
\* records appended so far; it returns the list or raises at the first entry
\* without a mail attribute when the flag is not "TRUE"
RECURSIVE ParseFrom(_, _, _, _)
ParseFrom(ldap_users_obj, env, k, users) ==
    IF k > Len(ldap_users_obj) THEN [raised |-> None, users |-> users]
    ELSE LET user_attrs == ldap_users_obj[k]
             uni_id == user_attrs.cn
         IN  IF "mail" \in user_attrs.keys
             THEN ParseFrom(ldap_users_obj, env, k + 1,
                            Append(users, ParsedUser(user_attrs.mail, uni_id)))
             ELSE IF get_ldap_pseudo_mail(env) = "TRUE"
             THEN ParseFrom(ldap_users_obj, env, k + 1,
                            Append(users, ParsedUser(PseudoMail(uni_id), uni_id)))
             ELSE [raised |-> "UserSyncException", users |-> <<>>]
parse_users_from_ldap(ldap_users_obj, env) == ParseFrom(ldap_users_obj, env, 1, <<>>)

InitParse ==
    /\ \E l \in LdapResults, e \in EnvValues :
          parse = [NoParse EXCEPT !.ldap_users_obj = l, !.env = e]
    /\ remote = [i \in UserIds |-> NoAccount]
    /\ remote0 = remote
    /\ all_users = <<>>
    /\ user_data_list = <<>>
    /\ pc = "parse_users_from_ldap"
    /\ entries = <<>>
    /\ dir = [t \in WhitelistTeams |-> Unqueried]
    /\ cur = NoCur
    /\ team_owners = <<>>
    /\ rm = NoRm
    /\ to_remove = <<>>
    /\ created = [u \in UniIds |-> 0]
    /\ rejects = 0
    /\ maxRej = 0
    /\ event = NoEvent
    /\ group_dicts = <<>>
    /\ request = NoRequest
    /\ diff = NoDiff
    /\ rerun = FirstRun

\* users = parse_users_from_ldap(ldap_users_obj)
CallParse ==
    /\ pc = "parse_users_from_ldap"
    /\ LET res == parse_users_from_ldap(parse.ldap_users_obj, parse.env) IN
       parse' = [parse EXCEPT !.users = res.users, !.raised = res.raised,
                              !.called = TRUE]
    /\ pc' = "returned"
    /\ UNCHANGED <<remote, all_users, user_data_list, entries, dir, cur, team_owners,
                   rm, to_remove, remote0, created, rejects, maxRej, event,
                   group_dicts, request, diff, rerun>>

NextParse == CallParse

SpecParse == InitParse /\ [][NextParse]_vars

(***************************************************************************)
(* Properties.                                                             *)
(***************************************************************************)
\* the state in which ensure_single_teamowner has just returned (and with it
\* process_elabftw has returned True), every remote request having been accepted
EnsureReturned == event.op = "ensure_single_teamowner" /\ rejects = 0
\* the state in which remove_user_from_team has just returned
RemoveReturned == event.op = "remove_user_from_team" /\ rejects = 0
\* the state in which process_removed_users has just returned
RemovalsReturned == event.op = "process_removed_users" /\ rejects = 0

\* C1: after ensure_single_teamowner(new_owner_id, team_id) has completed with every
\* remote request accepted, the remote owners of the team are exactly {new_owner_id},
\* whatever the owners were before
C1_SoleOwnerAfterEnsure ==
    EnsureReturned => RemoteOwners(remote, event.team) = {event.user}

\* C2: whenever process_elabftw returns True for a team, the team has at most one
\* remote owner, whatever earlier whitelist entries of the run did
C2_AtMostOneOwnerWhenTrue ==
    event.op = "ensure_single_teamowner"
        => Cardinality(RemoteOwners(remote, event.team)) <= 1

\* the whitelist entry for the team returned True
Processed(t) == \E k \in 1..Len(entries) : entries[k].team = t /\ entries[k].result = "True"

\* C3: every account that was in at least one team when the run started is in at
\* least one team in every state of the run; an account that was a member of two
\* whitelisted teams and is in neither directory group ends the run in the
\* fallback team
C3_AlwaysInATeam ==
    \A i \in UserIds :
        /\ (remote0[i].exists /\ TeamsOf(remote0[i]) # {}) => TeamsOf(remote[i]) # {}
        /\ (/\ pc = "done"
            /\ rejects = 0
            /\ remote0[i].exists
            /\ TeamsOf(remote0[i]) = {"T1", "T2"}
            /\ Processed("T1") /\ Processed("T2")
            /\ OrgIdOf(i) \notin dir["T1"].users \cup dir["T2"].users)
           => FallbackTeam \in TeamsOf(remote[i])

\* C4: remove_user_from_team(user, team) for a user whose only remote team is that
\* team leaves the user a member of exactly the fallback team and archived,
\* whatever the archived flag was before
C4_LastTeamRemovalArchives ==
    (RemoveReturned /\ TeamsOf(event.pre) = {event.team})
        => /\ TeamsOf(remote[event.user]) = {FallbackTeam}
           /\ remote[event.user].archived

\* C5: remove_user_from_team(user, team) for a user with two or more remote teams,
\* the team among them, removes that membership only and leaves the archived flag
C5_RemovalOfOneOfSeveral ==
    (/\ RemoveReturned
     /\ Cardinality(TeamsOf(event.pre)) >= 2
     /\ event.team \in TeamsOf(event.pre))
        => /\ TeamsOf(remote[event.user]) = TeamsOf(event.pre) \ {event.team}
           /\ remote[event.user].archived = event.pre.archived

\* the first whitelist entry has been processed against a store without users, the
\* directory group holding everybody
FreshTeamRun ==
    /\ RemovalsReturned
    /\ Len(entries) = 1
    /\ \A i \in UserIds : ~remote0[i].exists
    /\ dir[entries[1].team].users = UniIds

\* C6: from a store that has the team and no users, the directory group holding the
\* leader A and B, C: after process_elabftw and process_removed_users all three
\* exist, are members of the team and not archived, and A is the only owner and
\* Admin of the team
C6_FreshTeamEndToEnd ==
    FreshTeamRun =>
        LET t == entries[1].team
            leader == UserIdOf(entries[1].leader)
        IN  /\ \A i \in UserIds : /\ remote[i].exists
                                  /\ remote[i].teams[t].member
                                  /\ ~remote[i].archived
            /\ RemoteOwners(remote, t) = {leader}
            /\ remote[leader].teams[t].usergroup = Admin
C6_Witness == FreshTeamRun /\ entries[1].result = "True" /\ created["c"] = 1

\* C7: process_removed_users(team, directoryUniIds) removes from the team exactly
\* the remote members whose uniId the directory set lacks, archives those for whom
\* it was the last team, and leaves the members the directory set holds untouched
C7_RemovalsExact ==
    RemovalsReturned =>
        LET t == cur.team
            D == dir[t].users
            stale == {i \in RemoteMembers(cur.before, t) : OrgIdOf(i) \notin D}
        IN  /\ RemoteMembers(remote, t) = RemoteMembers(cur.before, t) \ stale
            /\ \A i \in stale : TeamsOf(cur.before[i]) = {t} => remote[i].archived
            /\ \A i \in RemoteMembers(cur.before, t) \ stale : remote[i] = cur.before[i]

\* C8: after process_elabftw returned True for the first whitelist entry, every
\* non-leader user of the directory group whose account was archived in the
\* fallback team alone is a member of the team, out of the fallback team, and
\* not archived
C8_UnarchivedMembersRejoin ==
    (EnsureReturned /\ Len(entries) = 1) =>
        \A u \in dir[event.team].users \ {event.uni} :
            LET i == UserIdOf(u) IN
            (/\ remote0[i].exists
             /\ remote0[i].archived
             /\ TeamsOf(remote0[i]) = {FallbackTeam})
                => /\ event.team \in TeamsOf(remote[i])
                   /\ FallbackTeam \notin TeamsOf(remote[i])
                   /\ ~remote[i].archived

\* the cached records of account i say what the remote store says
CacheAgrees(i) ==
    /\ HasDetail(i)
    /\ TeamsOf(Detail(i)) = TeamsOf(remote[i])
    /\ Found(OrgIdOf(i))
    /\ "archived" \in Summary(OrgIdOf(i)).keys
    /\ Summary(OrgIdOf(i)).userid = i
    /\ Summary(OrgIdOf(i)).archived = remote[i].archived

\* C9: after every accepted create_user, add_user_to_team, remove_user_from_team
\* and toggle_user_archived the cached records of that user agree with the remote
\* store on existence, team memberships and the archived flag
C9_CacheAgreesWithRemote ==
    (/\ event.op \in {"create_user", "add_user_to_team", "remove_user_from_team",
                      "toggle_user_archived"}
     /\ event.raised = None
     /\ rejects = 0
     /\ Reaches(remote, event.user))
        => CacheAgrees(event.user)

\* C10: a get_user_id for a uniId create_user succeeded for earlier in the run
\* returns (the new id, False), and no uniId gets a second account
C10_CreatedUserIsFound ==
    /\ \A u \in UniIds : created[u] <= 1
    /\ (/\ event.op \in {"get_user_id", "toggle_user_archived"}
        /\ event.uni # None
        /\ created[event.uni] >= 1)
           => /\ event.op = "get_user_id"
              /\ event.raised = None
              /\ event.user = UserIdOf(event.uni)

\* an ownership patch of the whitelist entry taken last has been rejected
OwnershipPatchRejected == cur.patch_rejected /\ cur.team # None

\* C11: once the remote store has rejected a patch of the ownership step (is_owner
\* of a current owner, is_owner or group of the new owner) the run aborts:
\* process_elabftw does not return True, the removals of the team do not run and
\* no later whitelist entry is taken
C11_OwnershipRejectAborts ==
    OwnershipPatchRejected
        => /\ entries[Len(entries)].result # "True"
           /\ pc \in {"demote", "demote_group", "promote", "promote_group", "aborted"}

\* the member loop after the directory user at cur.idx: the next directory user,
\* or the ownership step
LoopGoesOn ==
    /\ cur'.idx = cur.idx + 1
    /\ pc' = IF cur'.idx <= Len(cur.members) THEN "member" ELSE "owner"

\* a step of the member loop in which the remote store rejects the creation of the
\* user or a patch of the user's team membership
MemberRequestRejected ==
    /\ ~request'.ok
    /\ \/ pc = "member" /\ request'.op = "create_user"
       \/ pc = "member_add" /\ request'.op = "add"
       \/ pc \in {"rm_add", "rm_unref"} /\ rm.ret = "member"
                                         /\ request'.op \in {"add", "unreference"}

\* C12: a rejected creation of a non-leader user, or a rejected patch of that
\* user's team membership, is only logged: the user's add-to-team follows the
\* creation, and after the user the loop goes on to the next directory user and,
\* after the last, to the ownership step
C12_MemberErrorsOnlyLogged ==
    [][MemberRequestRejected =>
          CASE pc = "member" -> pc' = "member_add" /\ cur'.idx = cur.idx
            [] pc = "member_add" ->
                  IF cur.unarchived THEN pc' \in {"rm_add", "rm_unref"} /\ cur' = cur
                                    ELSE LoopGoesOn
            [] pc = "rm_add" -> pc' = "rm_unref" /\ cur' = cur
            [] pc = "rm_unref" ->
                  IF rm.single THEN pc' = "rm_toggle" /\ cur' = cur ELSE LoopGoesOn]_vars
C12_Witness ==
    /\ request.op = "create_user" /\ ~request.ok
    /\ pc = "member_add"
    /\ cur.idx < Len(cur.members)

\* C13: a check_connection that meets a refused connection or a status other than
\* 200 raises UserSyncException and the run ends before the user snapshot, before
\* any directory query and before any remote mutation; on status 200 it returns
\* True and the run goes on
C13_ConnectionFailureAborts ==
    request.op = "check_connection" =>
        IF request.ok
        THEN event.op = "check_connection" /\ pc = "whitelist"
        ELSE /\ event.op = "UserSyncException"
             /\ pc = "aborted"
             /\ all_users = <<>> /\ user_data_list = <<>>
             /\ \A t \in WhitelistTeams : ~dir[t].queried
             /\ entries = <<>>
             /\ remote = remote0
C13_Witness ==
    request.op = "check_connection" /\ request.content = "refused" /\ pc = "aborted"

\* the step in which the whitelist loop takes its next row
TakesEntry == Len(entries') = Len(entries) + 1
\* process_elabftw returns False at once: no request, the remote store and the
\* caches as they were, and the loop at its next row
ReturnsFalseAtOnce ==
    /\ entries'[Len(entries')].result = "False"
    /\ request' = NoRequest
    /\ remote' = remote
    /\ all_users' = all_users /\ user_data_list' = user_data_list
    /\ pc' = "whitelist"
\* the row the loop takes in this step, and the directory group it gets for it
Taken == entries'[Len(entries')]
TakenGroup == dir'[Taken.team].users
\* a request that changes the remote store was issued in the step to this state
Mutation == request.op \notin {None, "check_connection"}

\* the directory group of whitelist entry k does not hold the entry's leader
LeaderMissing(k) == entries[k].leader \notin dir[entries[k].team].users

\* C14: for an entry whose leader is not among the users of the team's directory
\* group, process_elabftw returns False without a remote mutation, and the run
\* goes on with the next entry
C14_LeaderMissingSkips ==
    /\ [](\A k \in 1..Len(entries) :
             LeaderMissing(k) => /\ entries[k].result = "False"
                                 /\ ~(Mutation /\ request.entry = k))
    /\ [][(TakesEntry /\ Taken.leader \notin TakenGroup) => ReturnsFalseAtOnce]_vars
C14_Witness ==
    /\ Len(entries) = 2
    /\ LeaderMissing(1) /\ get_team_id(entries[1].team) # None
    /\ entries[1].result = "False"
    /\ entries[2].result = "True"

\* no team of the remote store has the team name of whitelist entry k as its orgid
TeamMissing(k) == entries[k].team \notin RemoteTeams

\* C15: for an entry whose team name no remote team has, process_elabftw returns
\* False without creating, unarchiving or re-teaming a user and without an
\* ownership patch, and the run goes on with the next entry
C15_TeamMissingSkips ==
    /\ [](\A k \in 1..Len(entries) :
             TeamMissing(k) => /\ entries[k].result = "False"
                               /\ ~(Mutation /\ request.entry = k))
    /\ [][(TakesEntry /\ Taken.team \notin RemoteTeams) => ReturnsFalseAtOnce]_vars
C15_Witness ==
    /\ Len(entries) = 2
    /\ TeamMissing(1)
    /\ entries[1].result = "False"
    /\ entries[2].result = "True"

\* a list that holds no element twice
NoDuplicate(l) == Cardinality(set(l)) = Len(l)

\* C16: for all lists of directory uniIds D and remote uniIds R, diff_users(D, R)
\* returns (toAdd, toRemove) with toAdd = D \ R and toRemove = R \ D as sets, so
\* toAdd shares nothing with R and toRemove nothing with D, and neither list
\* holds a uniId twice
C16_DiffIsSetDifference ==
    diff.called =>
        LET D == set(diff.ldap_users)
            R == set(diff.elabftw_users)
        IN  /\ set(diff.add) = D \ R
            /\ set(diff.remove) = R \ D
            /\ set(diff.add) \cap R = {}
            /\ set(diff.remove) \cap D = {}
            /\ NoDuplicate(diff.add) /\ NoDuplicate(diff.remove)
C16_Witness ==
    /\ diff.called
    /\ diff.add # <<>> /\ diff.remove # <<>>
    /\ set(diff.ldap_users) \cap set(diff.elabftw_users) # {}
    /\ ~NoDuplicate(diff.ldap_users)

\* C17: diff_users(A, A) = ([], []), diff_users(A, []) = (A, []) and
\* diff_users([], B) = ([], B), the lists compared as sets
C17_DiffIdentities ==
    diff.called =>
        LET A == set(diff.ldap_users)
            B == set(diff.elabftw_users)
        IN  /\ A = B => diff.add = <<>> /\ diff.remove = <<>>
            /\ B = {} => set(diff.add) = A /\ diff.remove = <<>>
            /\ A = {} => diff.add = <<>> /\ set(diff.remove) = B
C17_Witness ==
    /\ diff.called
    /\ diff.ldap_users = diff.elabftw_users
    /\ Len(diff.ldap_users) = 2 /\ NoDuplicate(diff.ldap_users)
    /\ diff.add = <<>> /\ diff.remove = <<>>

\* C18: a second complete run with the same whitelist, the same directory and
\* every request accepted leaves the remote store as the first run left it
C18_SecondRunChangesNothing ==
    (rerun.n = 2 /\ pc = "done") => remote = rerun.first

\* the rows taken so far are the first rows of the whitelist, in its order
TakenInOrder ==
    /\ Len(entries) <= Len(group_dicts)
    /\ \A k \in 1..Len(entries) : /\ entries[k].team = group_dicts[k].groupname
                                   /\ entries[k].leader = group_dicts[k].leader
\* nothing of the whitelist entries taken so far is left to do
NothingPending ==
    /\ pc = "whitelist"
    /\ \A k \in 1..Len(entries) : entries[k].result \in {"True", "False"}
    /\ team_owners = <<>> /\ to_remove = <<>> /\ rm = NoRm

\* C19: the whitelist entries are taken in whitelist order, each once; a
\* directory query or a remote mutation belongs to the entry taken last, and the
\* next entry is taken only when nothing of the entries before is left to do; the
\* run ends when the last entry is done
C19_WhitelistOrder ==
    /\ [](TakenInOrder /\ (pc = "done" => Len(entries) = Len(group_dicts)))
    /\ [][/\ Len(entries') = Len(entries) \/ TakesEntry
          /\ \A k \in 1..Len(entries) : /\ entries'[k].team = entries[k].team
                                         /\ entries'[k].leader = entries[k].leader
          /\ TakesEntry => NothingPending
          /\ dir' # dir => TakesEntry
          /\ Mutation' => request'.entry = Len(entries') /\ ~TakesEntry
          /\ (NothingPending /\ Len(entries) = Len(group_dicts)) => pc' = "done"
          /\ pc # "done"]_vars
C19_Witness ==
    /\ pc = "done"
    /\ Len(entries) = 2
    /\ entries[1].team # entries[2].team
    /\ entries[1].result = "True" /\ entries[2].result = "True"
    /\ remote # remote0

\* the same operation with the same arguments, for the same step of the same entry
SameRequest(r, q) ==
    /\ r.op = q.op /\ r.uni = q.uni /\ r.user = q.user /\ r.team = q.team
    /\ r.content = q.content /\ r.entry = q.entry

\* C20: no remote call is retried: the request that follows a rejected create,
\* add, unreference, archive toggle, is_owner or group patch is never the same
\* operation with the same arguments
C20_NoRetry ==
    [][(Mutation /\ ~request.ok /\ request'.op # None)
          => ~SameRequest(request', request)]_vars
C20_Witness ==
    /\ Mutation /\ ~request.ok
    /\ request.op = "unreference"
    /\ pc = "rm_toggle"

\* the directory entries without a mail attribute
NoMail(l) == {k \in 1..Len(l) : "mail" \notin l[k].keys}

\* C21: parse_users_from_ldap on entries of which some have no mail attribute:
\* when LDAP_PSEUDO_MAIL is "TRUE" it returns one user per entry, the entry's mail
\* or "<uniId>@pseudomail.uni-muenster.de" for an entry without one; when the flag
\* is anything else, unset included, it raises UserSyncException and returns no list
C21_PseudoMailOrRaise ==
    (parse.called /\ NoMail(parse.ldap_users_obj) # {}) =>
        LET l == parse.ldap_users_obj IN
        IF parse.env = "TRUE"
        THEN /\ parse.raised = None
             /\ Len(parse.users) = Len(l)
             /\ \A k \in 1..Len(l) :
                    /\ parse.users[k].uni_id = l[k].cn
                    /\ parse.users[k].email =
                          IF k \in NoMail(l)
                          THEN [local |-> l[k].cn, domain |-> "pseudomail.uni-muenster.de"]
                          ELSE l[k].mail
        ELSE parse.raised = "UserSyncException" /\ parse.users = <<>>
C21_Witness ==
    /\ parse.called
    /\ parse.env = "TRUE"
    /\ Len(parse.ldap_users_obj) = 2
    /\ NoMail(parse.ldap_users_obj) = {2}
    /\ parse.users[2].email.domain = "pseudomail.uni-muenster.de"

\* the remove_user_from_team call the request of the last step belongs to: the one
\* that has just returned, or the one running
Removal ==
    IF event.op = "remove_user_from_team"
    THEN [user |-> event.user, team |-> event.team, pre |-> event.pre]
    ELSE [user |-> rm.user_id, team |-> rm.team, pre |-> rm.pre]

\* C22: when remove_user_from_team removes the only team the user has in the remote
\* store, the unreference is issued after the add to the fallback team
\* "userarchiv" and before the archive toggle: when the unreference has been
\* issued the user is a member of the fallback team, so never in no team
C22_FallbackBeforeUnreference ==
    (request.op = "unreference" /\ TeamsOf(Removal.pre) = {Removal.team})
        => /\ FallbackTeam \in TeamsOf(remote[Removal.user])
           /\ pc = "rm_toggle"

\* ensure_single_teamowner is called for a team whose only remote owner is the
\* new owner
SoleOwnerIsNewOwner ==
    /\ pc = "owner"
    /\ RemoteOwners(remote, get_team_id(cur.team)) = {cur.team_leader_id}

\* C23: when the team has exactly one remote owner and it is new_owner_id,
\* ensure_single_teamowner returns without a remote mutation: it issues no
\* is_owner patch and no group patch, and the remote store stays as it was
C23_SoleOwnerNoOp ==
    [][SoleOwnerIsNewOwner => /\ pc' = "removed"
                              /\ event'.op = "ensure_single_teamowner"
                              /\ request' = NoRequest
                              /\ remote' = remote]_vars

\* the remote owners ensure_single_teamowner met are several users, or one user
\* other than new_owner_id
OwnersToReplace ==
    /\ cur.owners0 # {}
    /\ cur.owners0 # {cur.team_leader_id}

\* C24: when the current owners are several users or one user other than
\* new_owner_id, ensure_single_teamowner clears is_owner remotely for every one of
\* them before it issues the promotion patch for new_owner_id, and it does issue
\* the promotion patch
C24_DemoteAllThenPromote ==
    OwnersToReplace =>
        /\ (request.op = "is_owner" /\ request.content = "True")
              => \A i \in cur.owners0 \ {request.user} :
                    ~OwnerIn(remote, i, request.team)
        /\ event.op = "ensure_single_teamowner"
              => cur.set_teamowner.is_owner # "not issued"

\* C25: set_teamowner issues the group := Admin (2) patch only after its is_owner
\* patch was accepted, and then does issue it; it returns True only when both
\* patches were accepted; when the is_owner patch is rejected no group patch is
\* issued and the result is not True
C25_PromotionSetsAdmin ==
    LET call == cur.set_teamowner
        id == cur.team_leader_id
        t == get_team_id(cur.team)
    IN  /\ call.group # "not issued" => call.is_owner = "accepted"
        /\ (call.is_owner = "accepted" /\ OwnerIn(remote, id, t)
                                       /\ call.returned # "not returned")
              => call.group # "not issued"
        /\ (request.op = "group" /\ request.content = "2" /\ request.ok
                                 /\ Reaches(remote, id))
              => remote[id].teams[t].usergroup = Admin
        /\ call.returned = "True"
              => call.is_owner = "accepted" /\ call.group = "accepted"
        /\ call.is_owner = "rejected"
              => call.group = "not issued" /\ call.returned = "None"
C25_Witness ==
    /\ event.op = "ensure_single_teamowner"
    /\ cur.set_teamowner.is_owner = "rejected"
    /\ cur.set_teamowner.returned = "None"

\* set_teamowner is called for a user who is the only remote owner of the team
CalledOnSoleOwner ==
    /\ pc = "promote"
    /\ RemoteOwners(remote, get_team_id(cur.team)) = {cur.team_leader_id}

\* C26: set_teamowner on a user who is already the only remote owner of the team
\* issues no patch, leaves the remote store as it is and returns False, so that
\* a second call in a row changes nothing the first did not
C26_PromotionIdempotent ==
    [][CalledOnSoleOwner => /\ request' = NoRequest
                            /\ remote' = remote
                            /\ cur'.set_teamowner.returned = "False"]_vars

\* the request of this step is the given patchuser2team patch of user id
IssuesPatch(op, content, id) ==
    /\ request'.op = op /\ request'.content = content
    /\ request'.user = id /\ request'.team = get_team_id(cur.team)

\* C27: remove_user_as_teamowner on a remote owner of the team issues two patches,
\* is_owner := false and then group := User (4); afterwards the user is a member
\* of the team, not its owner, with usergroup 4
C27_DemotionTwoPatches ==
    /\ [][(pc = "demote" /\ IsRemoteOwner(Head(team_owners), get_team_id(cur.team)))
            => /\ IssuesPatch("is_owner", "False", Head(team_owners))
               /\ pc' = "demote_group"]_vars
    /\ [][pc = "demote_group" => IssuesPatch("group", "4", Head(team_owners))]_vars
    /\ [](event.op = "remove_user_as_teamowner"
            => /\ ~OwnerIn(remote, event.user, event.team)
               /\ remote[event.user].teams[event.team] = PlainMember)

\* C28: get_team_owners(team_id) returns the ids of exactly the users the remote
\* store now marks owner of the team, those who became members or owners of the
\* team earlier in the run included
C28_OwnersAreRemoteOwners ==
    cur.scanned => set(cur.owners) = cur.owners0

\* the positions of the cached detail records whose teams hold team t
Listing(t) == {k \in 1..Len(user_data_list) : user_data_list[k].teams[t].member}
\* the record get_users_for_team gives for the cached detail record at position k
TeamUserOf(k) ==
    [user_mail |-> user_data_list[k].email, user_id |-> user_data_list[k].userid,
     orgid |-> user_data_list[k].orgid]

MemberLoopDone == pc = "owner"

\* C30: in process_elabftw get_user_id_or_create is invoked once for every user of
\* the directory group and for nobody else: for the leader before the member
\* loop, for every other user inside it; the member loop never meets the leader
C30_OnceEachUser ==
    /\ \A u \in UniIds : cur.invoked[u] <= 1
    /\ pc \in {"member", "member_add"}
          => /\ cur.members[cur.idx] # cur.leader
             /\ cur.invoked[cur.leader] = 1
    /\ MemberLoopDone
          => \A u \in UniIds :
                cur.invoked[u] = IF u \in dir[cur.team].users THEN 1 ELSE 0
C30_Witness ==
    /\ MemberLoopDone
    /\ dir[cur.team].users = UniIds
    /\ cur.leader = "b"
    /\ \A u \in UniIds : cur.invoked[u] = 1

\* the member loop of process_elabftw is at the directory user cur.members[cur.idx]
InMemberLoop == cur.idx \in 1..Len(cur.members)
\* the position of a uniId in the directory's order
DirPos(u) == CHOOSE k \in 1..Len(UserOrder) : UserOrder[k] = u
\* the user's resolve-or-create and add-to-team have been done and accepted
Reconciled(u) ==
    /\ cur.invoked[u] = 1
    /\ remote[UserIdOf(u)].exists
    /\ remote[UserIdOf(u)].teams[get_team_id(cur.team)].member
\* the user has not been resolved and the account is as it was when the whitelist
\* entry was taken
Untouched(u) ==
    /\ cur.invoked[u] = 0
    /\ remote[UserIdOf(u)] = cur.at_start[UserIdOf(u)]

Phase ==
    CASE pc \in {"leader", "leader_add"} -> 1
      [] pc \in {"member", "member_add"} -> 2
      [] pc \in {"rm_add", "rm_unref", "rm_toggle"} -> IF rm.ret = "member" THEN 2 ELSE 4
      [] pc \in {"owner", "demote", "demote_group", "promote", "promote_group"} -> 3
      [] pc \in {"removed", "remove_next"} -> 4
      [] OTHER -> 0
MembershipOps == {"create_user", "archive", "add", "unreference"}

\* C32: within one whitelist entry the remote mutations come in this order: the
\* leader's resolve-or-create and membership, the other directory users'
\* resolve-or-create and membership, the ownership patches, the removals of the
\* stale members; no stale member is removed before the ownership step returned
C32_OrderWithinEntry ==
    /\ [][(Phase # 0 /\ Phase' # 0) => Phase' >= Phase]_vars
    /\ [][Mutation' =>
            CASE Phase = 1 -> /\ request'.op \in MembershipOps
                              /\ request'.uni = cur.leader
              [] Phase = 2 -> /\ request'.op \in MembershipOps
                              /\ \/ request'.uni = cur.members[cur.idx]
                                 \/ request'.user = cur.user_id
              [] Phase = 3 -> request'.op \in {"is_owner", "group"}
              [] Phase = 4 -> /\ request'.op \in MembershipOps
                              /\ entries[Len(entries)].result = "True"
                              /\ cur.scanned
              [] OTHER -> FALSE]_vars
C32_Witness ==
    /\ pc = "remove_next"
    /\ request.op = "unreference"
    /\ cur.set_teamowner.returned = "True"
    /\ Len(cur.members) >= 1
    /\ created[cur.leader] = 1

\* process_removed_users is about to run, or runs, for the entry taken last
RemovalsRun == pc \in {"removed", "remove_next"} \/ rm.ret = "removals"

\* C33: process_removed_users runs for a team only after process_elabftw returned
\* True for it in the same iteration; for an entry that was skipped (leader
\* missing, team not found) no removal is computed and no request is issued, so
\* no member is removed from the team or archived
C33_RemovalsOnlyAfterTrue ==
    /\ [](RemovalsRun => entries[Len(entries)].result = "True")
    /\ [](\A k \in 1..Len(entries) :
             entries[k].result = "False" => ~(Mutation /\ request.entry = k))
    /\ [][(TakesEntry /\ Taken.result = "False")
            => /\ remote' = remote
               /\ to_remove' = <<>> /\ rm' = NoRm
               /\ pc' = "whitelist"]_vars
C33_Witness ==
    /\ pc = "done"
    /\ Len(entries) = 1
    /\ entries[1].result = "False"
    /\ entries[1].team \in RemoteTeams
    /\ \E i \in RemoteMembers(remote, entries[1].team) :
          OrgIdOf(i) \notin dir[entries[1].team].users

\* ensure_single_teamowner is running or has just returned
DuringEnsure ==
    \/ pc \in {"demote", "demote_group", "promote", "promote_group"}
    \/ event.op = "ensure_single_teamowner"

\* C34: while ensure_single_teamowner works on a team that had at most one remote
\* owner when it started, the team has at most one remote owner in every state,
\* also when the remote store rejects a patch
C34_NeverTwoOwners ==
    (DuringEnsure /\ cur.scanned /\ Cardinality(cur.owners0) <= 1)
        => Cardinality(RemoteOwners(remote, get_team_id(cur.team))) <= 1

\* the uniId is in the directory group of a team process_elabftw returned True for
InProcessedGroup(u) ==
    \E k \in 1..Len(entries) :
        entries[k].result = "True" /\ u \in dir[entries[k].team].users

\* C35: at the end of a run in which every request was accepted, every user in
\* the directory group of a successfully processed team is not archived, a user
\* archived at the start and in the groups of two whitelisted teams included
C35_DirectoryUsersActive ==
    (pc = "done" /\ rejects = 0) =>
        \A u \in UniIds :
            InProcessedGroup(u) => /\ remote[UserIdOf(u)].exists
                                   /\ ~remote[UserIdOf(u)].archived

\* the account is in the directory group of the entry's team or was a remote
\* member of the team when the entry was taken
Concerned(i) ==
    \/ OrgIdOf(i) \in dir[cur.team].users
    \/ cur.at_start[i].exists /\ cur.at_start[i].teams[get_team_id(cur.team)].member

\* C36: while a whitelist entry for team t is processed, and when it is done, no
\* user's membership, ownership or usergroup has changed in a team other than t
\* and "userarchiv", and nothing has changed about a user who is neither in t's
\* directory group nor a member of t
C36_OnlyTheTeamAndFallback ==
    cur.team # None =>
        \A i \in UserIds :
            /\ cur.at_start[i].exists =>
                  \A x \in RemoteTeams \ {get_team_id(cur.team), FallbackTeam} :
                      remote[i].teams[x] = cur.at_start[i].teams[x]
            /\ ~Concerned(i) => remote[i] = cur.at_start[i]

\* get_user_id_or_create has just been called for a directory user
Resolved == event.op \in {"get_user_id", "toggle_user_archived", "create_user"}
                /\ event.uni # None /\ event.team # None

\* C37: get_user_id_or_create returns a pair (user id, unarchived) whatever the
\* input and the remote store's answer; unarchived is True exactly when the
\* account was found archived and the archive toggle was accepted
C37_AlwaysReturnsPair ==
    Resolved =>
        /\ event.raised = None
        /\ pc = "member_add"
              => cur.unarchived = (request.op = "archive" /\ request.ok)

\* C38: when process_elabftw has returned True for a team, every request having
\* been accepted, the leader is a member of the team and not archived, and a
\* leader whose account was archived and in the fallback team alone when the run
\* started is no longer a member of "userarchiv"
C38_LeaderActiveInTeam ==
    EnsureReturned =>
        LET leader == remote[event.user]
            before == remote0[event.user]
        IN  /\ leader.exists
            /\ leader.teams[event.team].member
            /\ ~leader.archived
            /\ (before.exists /\ before.archived /\ TeamsOf(before) = {FallbackTeam})
                  => FallbackTeam \notin TeamsOf(leader)

\* every cached user id is the id of an account of the remote store
CachedIdsExist ==
    /\ \A k \in 1..Len(all_users) : Reaches(remote, all_users[k].userid)
    /\ \A k \in 1..Len(user_data_list) : Reaches(remote, user_data_list[k].userid)

\* C39: a creation the remote store rejects leaves all_users and user_data_list
\* as they were, so every cached user id is the id of a user of the remote store
C39_RejectedCreateLeavesCaches ==
    /\ [][(request'.op = "create_user" /\ ~request'.ok)
            => all_users' = all_users /\ user_data_list' = user_data_list]_vars
    /\ []CachedIdsExist

====
